---- MODULE Spec2Model ----
(***************************************************************************)
(* A model of app.py: the dice game in which every player rolls five dice, *)
(* keeps at least one die of every roll and re-rolls the rest until five   *)
(* dice are kept; a kept 3 scores zero and the lowest total wins.          *)
(*                                                                         *)
(* A die is modelled by its face value, a Turn by the record of its        *)
(* kept_dice, a Player by the record of its strategy (the class name) and  *)
(* its turn, and a Game by the sequence of its players.  A player object   *)
(* is identified by its position in Game.players.                          *)
(***************************************************************************)
EXTENDS Integers, Sequences, FiniteSets, TLC

\* app.py:9
NUM_DICE == 5

\* The faces random.randint(1, 6) can produce (app.py:18).
DieFaces == 1..6

(***************************************************************************)
(* Bounds of the exploration.                                              *)
(***************************************************************************)
\* Players of a game played from start to end.
NumPlayers == 2
\* The game runs explore NumFaces outcomes of Dice.roll(): the first NumFaces
\* faces of FaceOrder.
NumFaces == 2
\* The direct calls of Turn.keep pass at most MaxArgs dice.
MaxArgs == 2
\* The winner determination on its own takes games of up to MaxGame players.
MaxGame == 3
\* The trials of run() explored, in place of its MAX_ATTEMPTS = 1_000_000.
MaxAttempts == 3

VARIABLES
    players,    \* Game.players: sequence of [strategy, turn]
    pc,         \* position of the running operation
    cur,        \* play(): index in active_players of the loop variable player
    dice,       \* the dice offered to a strategy call
    chosen,     \* the value returned by a strategy call
    winners,    \* play(): the list winners, as indices into Game.players
    raised,     \* whether the last Turn.keep call raised AssertionError
    nargs,      \* len(dice) of the last direct Turn.keep call
    rolled,     \* per player: number of Dice.roll() calls made for its turn
    rounds,     \* per player: number of do_round calls made
    scores,     \* run(): the dict scores, strategy name -> trials won
    attempt     \* run(): the loop variable attempt, the trials completed

vars == <<players, pc, cur, dice, chosen, winners, raised, nargs, rolled, rounds,
          scores, attempt>>

(***************************************************************************)
(* Dice and Turn                                                           *)
(***************************************************************************)
\* The faces in the order the exploration takes them up: 3 (scores zero) and
\* 1 (the face the strategies single out) first, then the others.
FaceOrder == <<3, 1, 4, 2, 6, 5>>

\* Dice.roll(): the outcomes explored.
Dice_roll == {FaceOrder[i] : i \in 1..NumFaces}

\* Turn.__init__
Turn == [kept_dice |-> <<>>]

\* Turn.roll that rolls all NUM_DICE dice whatever is kept.
roll_all(self) == [1..NUM_DICE -> Dice_roll]

\* Turn.roll: every list the comprehension can build.
roll(self) == [1..(NUM_DICE - Len(self.kept_dice)) -> Dice_roll]

\* Turn.keep that assigns the dice instead of extending the list with them.
keep_assign(self, ds) ==
    IF 1 <= Len(ds) /\ Len(ds) <= NUM_DICE - Len(self.kept_dice)
      THEN [raised |-> FALSE, self |-> [self EXCEPT !.kept_dice = ds]]
      ELSE [raised |-> TRUE, self |-> self]

\* Turn.keep that builds the longer list and drops it: nothing is kept.
keep_dropped(self, ds) ==
    IF 1 <= Len(ds) /\ Len(ds) <= NUM_DICE - Len(self.kept_dice)
      THEN [raised |-> FALSE, self |-> self]
      ELSE [raised |-> TRUE, self |-> self]

\* Turn.keep with the upper limit of its assertion left out.
keep_unbounded(self, ds) ==
    IF 1 <= Len(ds)
      THEN [raised |-> FALSE, self |-> [self EXCEPT !.kept_dice = @ \o ds]]
      ELSE [raised |-> TRUE, self |-> self]

\* Turn.keep that keeps what fits instead of asserting.
keep_clamped(self, ds) ==
    LET room == NUM_DICE - Len(self.kept_dice)
        fits == IF Len(ds) <= room THEN ds ELSE SubSeq(ds, 1, room)
    IN  [raised |-> FALSE, self |-> [self EXCEPT !.kept_dice = @ \o fits]]

\* Turn.keep: the turn after the call and whether the assertion failed.  A
\* failed assertion raises AssertionError before kept_dice is touched.
keep(self, ds) ==
    IF 1 <= Len(ds) /\ Len(ds) <= NUM_DICE - Len(self.kept_dice)
      THEN [raised |-> FALSE, self |-> [self EXCEPT !.kept_dice = @ \o ds]]
      ELSE [raised |-> TRUE, self |-> self]

\* Turn.over
over(self) == Len(self.kept_dice) = NUM_DICE

(***************************************************************************)
(* Player                                                                  *)
(***************************************************************************)
Strategies ==
    {"RandomStrategy", "SimpleStrategy", "KeepOnesStrategy",
     "KeepOnesAndTwosStrategy", "KeepOnesUnlessLosingStrategy"}

\* Player.__init__ (the name is str(strategy) in run and is not modelled apart).
Player(strategy) == [strategy |-> strategy, turn |-> Turn]

\* Player.score without the test for 3.
RECURSIVE score_loop_all(_, _, _)
score_loop_all(ds, k, acc) ==
    IF k > Len(ds) THEN acc ELSE score_loop_all(ds, k + 1, acc + ds[k])

\* The loop of Player.score from its k-th die on, with the running total acc.
RECURSIVE score_loop(_, _, _)
score_loop(ds, k, acc) ==
    IF k > Len(ds) THEN acc
    ELSE score_loop(ds, k + 1, IF ds[k] # 3 THEN acc + ds[k] ELSE acc)

\* Player.score
score(self) == score_loop(self.turn.kept_dice, 1, 0)

(***************************************************************************)
(* Strategies.  Each returns the set of lists the call can return: one     *)
(* list for the deterministic variants, one per offered die for            *)
(* RandomStrategy.                                                         *)
(***************************************************************************)
\* min(dice, key=lambda d: d.value): the first die of the lowest value.
min_die(ds) ==
    ds[CHOOSE i \in DOMAIN ds :
          /\ \A j \in DOMAIN ds : ds[i] <= ds[j]
          /\ \A j \in 1..(i - 1) : ds[j] > ds[i]]

\* min(prior_scores) of a non-empty list of numbers.
min_of(xs) == CHOOSE m \in {xs[i] : i \in DOMAIN xs} : \A i \in DOMAIN xs : m <= xs[i]

\* The strategies without their fallback.
or_nothing(keep_list, ds) == keep_list

\* "if not keep: keep = [min(dice, ...)]"
or_lowest(keep_list, ds) == IF keep_list = <<>> THEN <<min_die(ds)>> ELSE keep_list

\* RandomStrategy that keeps two offered dice when there are two.
RandomStrategy_two(game, player, ds) ==
    {<<ds[i], ds[j]>> : i, j \in {k \in DOMAIN ds : Len(ds) >= 2}}
        \cup {<<ds[i]>> : i \in {k \in DOMAIN ds : Len(ds) = 1}}

RandomStrategy(game, player, ds) == {<<ds[i]>> : i \in DOMAIN ds}

SimpleStrategy(game, player, ds) ==
    LET test(d) == d = 3
    IN  {or_lowest(SelectSeq(ds, test), ds)}

KeepOnesStrategy(game, player, ds) ==
    LET test(d) == d \in {3, 1}
    IN  {or_lowest(SelectSeq(ds, test), ds)}

\* KeepOnesAndTwosStrategy with the test of KeepOnesStrategy.
KeepOnesAndTwosStrategy_no_twos(game, player, ds) ==
    LET test(d) == d \in {3, 1}
    IN  {or_lowest(SelectSeq(ds, test), ds)}

KeepOnesAndTwosStrategy(game, player, ds) ==
    LET test(d) == d \in {3, 1, 2}
    IN  {or_lowest(SelectSeq(ds, test), ds)}

\* [p.score for p in game.players if p.turn.over]
prior_scores(game) ==
    LET is_over(p) == over(p.turn)
        done == SelectSeq(game, is_over)
    IN  [i \in DOMAIN done |-> score(done[i])]

\* The condition of app.py:123 with the comparison turned round.
one_rule_reversed(game, player) ==
    /\ Len(prior_scores(game)) > 0
    /\ min_of(prior_scores(game)) < score(player)

\* The condition of app.py:123 with >= for >.
one_rule_or_tied(game, player) ==
    /\ Len(prior_scores(game)) > 0
    /\ min_of(prior_scores(game)) >= score(player)

\* The condition of app.py:123 read as "unless losing": it also holds while
\* nobody has finished.
one_rule_unless_behind(game, player) ==
    \/ Len(prior_scores(game)) = 0
    \/ min_of(prior_scores(game)) > score(player)

\* The condition of app.py:123.
one_rule(game, player) ==
    /\ Len(prior_scores(game)) > 0
    /\ min_of(prior_scores(game)) > score(player)

KeepOnesUnlessLosingStrategy(game, player, ds) ==
    LET test(d) == \/ d = 3
                   \/ d = 1 /\ one_rule(game, player)
    IN  {or_lowest(SelectSeq(ds, test), ds)}

\* self.strategy(game, self, dice)
call(strategy, game, player, ds) ==
    CASE strategy = "RandomStrategy" -> RandomStrategy(game, player, ds)
      [] strategy = "SimpleStrategy" -> SimpleStrategy(game, player, ds)
      [] strategy = "KeepOnesStrategy" -> KeepOnesStrategy(game, player, ds)
      [] strategy = "KeepOnesAndTwosStrategy" -> KeepOnesAndTwosStrategy(game, player, ds)
      [] strategy = "KeepOnesUnlessLosingStrategy" ->
            KeepOnesUnlessLosingStrategy(game, player, ds)

(***************************************************************************)
(* Game                                                                    *)
(***************************************************************************)
\* The second loop of Game.play without its branch for equal scores.
RECURSIVE winners_loop_no_ties(_, _, _)
winners_loop_no_ties(game, k, ws) ==
    IF k > Len(game) THEN ws
    ELSE winners_loop_no_ties(game, k + 1,
            IF ws = <<>> THEN <<k>>
            ELSE IF score(game[k]) < score(game[ws[1]]) THEN <<k>>
            ELSE ws)

\* The second loop of Game.play from the k-th player on; ws is the list
\* winners so far, holding indices into game.
RECURSIVE winners_loop(_, _, _)
winners_loop(game, k, ws) ==
    IF k > Len(game) THEN ws
    ELSE winners_loop(game, k + 1,
            IF ws = <<>> THEN <<k>>
            ELSE IF score(game[k]) < score(game[ws[1]]) THEN <<k>>
            ELSE IF score(game[k]) = score(game[ws[1]]) THEN Append(ws, k)
            ELSE ws)

\* A first loop that lets every unfinished player act in turn (round-robin).
acting_any(game, c) == {p \in DOMAIN game : ~over(game[p].turn)}

\* Which player the first loop of Game.play lets act: the loop variable.
acting(game, c) == {c}

\* One pass of "while not player.turn.over: player.do_round(self)":
\* Turn.roll, the strategy call, Turn.keep.
DoRound ==
    /\ pc = "play"
    /\ cur <= Len(players)
    /\ \E p \in acting(players, cur) :
         /\ ~over(players[p].turn)
         /\ \E ds \in roll(players[p].turn) :
              \E ks \in call(players[p].strategy, players, players[p], ds) :
                 /\ rolled' = [rolled EXCEPT ![p] = @ + Len(ds)]
                 /\ rounds' = [rounds EXCEPT ![p] = @ + 1]
                 /\ players' = [players EXCEPT ![p].turn = keep(@, ks).self]
                 /\ raised' = keep(players[p].turn, ks).raised
                 /\ pc' = IF keep(players[p].turn, ks).raised THEN "failed" ELSE "play"
    /\ UNCHANGED <<cur, dice, chosen, winners, nargs, scores, attempt>>

\* "if" for "while": the for loop moves on after any round.
NextPlayer_any ==
    /\ pc = "play"
    /\ cur <= Len(players)
    /\ rounds[cur] > 0
    /\ cur' = cur + 1
    /\ UNCHANGED <<players, pc, dice, chosen, winners, raised, nargs, rolled, rounds, scores, attempt>>

\* The while loop ends for this player: the for loop takes the next one.
NextPlayer ==
    /\ pc = "play"
    /\ cur <= Len(players)
    /\ over(players[cur].turn)
    /\ cur' = cur + 1
    /\ UNCHANGED <<players, pc, dice, chosen, winners, raised, nargs, rolled, rounds, scores, attempt>>

\* The for loop is exhausted: app.py:145.
BeginWinners ==
    /\ pc = "play"
    /\ cur > Len(players)
    /\ pc' = "winners"
    /\ winners' = <<>>
    /\ UNCHANGED <<players, cur, dice, chosen, raised, nargs, rolled, rounds, scores, attempt>>

\* app.py:146-155.
ReturnWinners ==
    /\ pc = "winners"
    /\ winners' = winners_loop(players, 1, winners)
    /\ pc' = "done"
    /\ UNCHANGED <<players, cur, dice, chosen, raised, nargs, rolled, rounds, scores, attempt>>

\* Game(players) for freshly constructed players, about to run play().
InitGame ==
    /\ players \in [1..NumPlayers -> {Player(s) : s \in Strategies}]
    /\ pc = "play"
    /\ cur = 1
    /\ dice = <<>>
    /\ chosen = <<>>
    /\ winners = <<>>
    /\ raised = FALSE
    /\ nargs = 0
    /\ rolled = [p \in 1..NumPlayers |-> 0]
    /\ rounds = [p \in 1..NumPlayers |-> 0]
    /\ scores = <<>>
    /\ attempt = 0

NextGame == DoRound \/ NextPlayer \/ BeginWinners \/ ReturnWinners

SpecGame == InitGame /\ [][NextGame]_vars

\* play() runs in one thread that executes statement after statement: whenever
\* a step of play() is possible, one is taken.
SpecGameFair == InitGame /\ [][NextGame]_vars /\ WF_vars(NextGame)

(***************************************************************************)
(* A Turn driven directly: a player whose turn receives arbitrary keep     *)
(* calls, valid or not; a caller that catches the AssertionError may call  *)
(* again.                                                                  *)
(***************************************************************************)
\* The argument lists of the direct calls: 0..MaxArgs dice of any faces.
KeepArgs == UNION {[1..n -> DieFaces] : n \in 0..MaxArgs}

\* player.turn.keep(*ds)
KeepCall ==
    /\ pc = "turn"
    /\ \E ds \in KeepArgs :
         /\ nargs' = Len(ds)
         /\ players' = [players EXCEPT ![1].turn = keep(@, ds).self]
         /\ raised' = keep(players[1].turn, ds).raised
    /\ UNCHANGED <<pc, cur, dice, chosen, winners, rolled, rounds, scores, attempt>>

\* A freshly constructed player.
InitTurn ==
    /\ players = <<Player("SimpleStrategy")>>
    /\ pc = "turn"
    /\ cur = 1
    /\ dice = <<>>
    /\ chosen = <<>>
    /\ winners = <<>>
    /\ raised = FALSE
    /\ nargs = 0
    /\ rolled = <<0>>
    /\ rounds = <<0>>
    /\ scores = <<>>
    /\ attempt = 0

NextTurn == KeepCall

SpecTurn == InitTurn /\ [][NextTurn]_vars

(***************************************************************************)
(* A strategy called as a function: any variant, any offered list of 1 to  *)
(* NUM_DICE dice, in a game taken from a set of sample positions.          *)
(***************************************************************************)
\* Kept dice of the acting player: nothing kept (score 0), score 10.
ActorSamples == {<<>>, <<4, 6>>}

\* Kept dice of the players listed before the acting player: none, one that has
\* not started, one in progress, one finished at score 3, 6, 10 or 11, and two
\* finished ones at different scores in either order.
OpponentSamples ==
    {<<>>,
     << <<>> >>,
     << <<1, 3>> >>,
     << <<1, 2, 3, 3, 3>> >>,
     << <<6, 3, 3, 3, 3>> >>,
     << <<4, 6, 3, 3, 3>> >>,
     << <<5, 6, 3, 3, 3>> >>,
     << <<5, 6, 3, 3, 3>>, <<1, 2, 3, 3, 3>> >>,
     << <<4, 6, 3, 3, 3>>, <<6, 6, 3, 3, 3>> >>}

\* The lists a strategy can be offered: 1 to NUM_DICE dice.
Offers == UNION {[1..n -> DieFaces] : n \in 1..NUM_DICE}

\* A player holding the kept dice ks.
PlayerWith(strategy, ks) == [strategy |-> strategy, turn |-> [kept_dice |-> ks]]

\* kept_dice = self.strategy(game, self, dice)
StrategyCall ==
    /\ pc = "call"
    /\ \E ks \in call(players[cur].strategy, players, players[cur], dice) :
         chosen' = ks
    /\ pc' = "returned"
    /\ UNCHANGED <<players, cur, dice, winners, raised, nargs, rolled, rounds, scores, attempt>>

InitStrategy ==
    /\ \E s \in Strategies, a \in ActorSamples, os \in OpponentSamples :
         /\ players = [i \in 1..(Len(os) + 1) |->
                         IF i <= Len(os) THEN PlayerWith("RandomStrategy", os[i])
                         ELSE PlayerWith(s, a)]
         /\ cur = Len(os) + 1
    /\ dice \in Offers
    /\ pc = "call"
    /\ chosen = <<>>
    /\ winners = <<>>
    /\ raised = FALSE
    /\ nargs = 0
    /\ rolled = [p \in DOMAIN players |-> 0]
    /\ rounds = [p \in DOMAIN players |-> 0]
    /\ scores = <<>>
    /\ attempt = 0

NextStrategy == StrategyCall

SpecStrategy == InitStrategy /\ [][NextStrategy]_vars

(***************************************************************************)
(* The winner determination of play() on its own: games of 0 to MaxGame    *)
(* players whose turns are complete, at app.py:145.                        *)
(***************************************************************************)
\* Complete turns of every score from 0 to 12.
FinalSamples == {<<3, 3, 3, ab[1], ab[2]>> : ab \in {x \in DieFaces \X DieFaces : x[1] <= x[2]}}

InitWinners ==
    /\ \E n \in 0..MaxGame :
         players \in [1..n -> {PlayerWith("RandomStrategy", ks) : ks \in FinalSamples}]
    /\ pc = "winners"
    /\ cur = Len(players) + 1
    /\ dice = <<>>
    /\ chosen = <<>>
    /\ winners = <<>>
    /\ raised = FALSE
    /\ nargs = 0
    /\ rolled = [p \in DOMAIN players |-> 15]
    /\ rounds = [p \in DOMAIN players |-> 5]
    /\ scores = <<>>
    /\ attempt = 0

NextWinners == ReturnWinners

SpecWinners == InitWinners /\ [][NextWinners]_vars

(***************************************************************************)
(* play() with Player.do_round taken statement by statement: the roll, the *)
(* strategy call and the keep are steps of their own, and the locals dice  *)
(* and kept_dice of do_round are part of the state between them.           *)
(***************************************************************************)
\* app.py:50: dice = self.turn.roll()
RollStep ==
    /\ pc = "play"
    /\ cur <= Len(players)
    /\ ~over(players[cur].turn)
    /\ dice' \in roll(players[cur].turn)
    /\ rolled' = [rolled EXCEPT ![cur] = @ + Len(dice')]
    /\ pc' = "rolled"
    /\ UNCHANGED <<players, cur, chosen, winners, raised, nargs, rounds, scores, attempt>>

\* A strategy that keeps its selection itself before it returns it.
StrategyStep_keeping ==
    /\ pc = "rolled"
    /\ \E ks \in call(players[cur].strategy, players, players[cur], dice) :
         /\ chosen' = ks
         /\ players' = [players EXCEPT ![cur].turn = keep(@, ks).self]
    /\ pc' = "selected"
    /\ UNCHANGED <<cur, dice, winners, raised, nargs, rolled, rounds, scores, attempt>>

\* app.py:51: kept_dice = self.strategy(game, self, dice)
StrategyStep ==
    /\ pc = "rolled"
    /\ \E ks \in call(players[cur].strategy, players, players[cur], dice) :
         chosen' = ks
    /\ pc' = "selected"
    /\ UNCHANGED <<players, cur, dice, winners, raised, nargs, rolled, rounds,
                   scores, attempt>>

\* app.py:52: self.turn.keep(*kept_dice), and the return of do_round.
KeepStep ==
    /\ pc = "selected"
    /\ players' = [players EXCEPT ![cur].turn = keep(@, chosen).self]
    /\ raised' = keep(players[cur].turn, chosen).raised
    /\ pc' = IF keep(players[cur].turn, chosen).raised THEN "failed" ELSE "play"
    /\ rounds' = [rounds EXCEPT ![cur] = @ + 1]
    /\ dice' = <<>>
    /\ chosen' = <<>>
    /\ UNCHANGED <<cur, winners, nargs, rolled, scores, attempt>>

NextSteps ==
    RollStep \/ StrategyStep \/ KeepStep \/ NextPlayer \/ BeginWinners \/ ReturnWinners

SpecSteps == InitGame /\ [][NextSteps]_vars

(***************************************************************************)
(* The simulation driver run(): trial after trial it builds the players    *)
(* of the strategies in reverse order, plays a game and counts the win of  *)
(* a single winner.  The progress and result printing is left out.         *)
(***************************************************************************)
\* app.py:161
strategies == <<"SimpleStrategy", "KeepOnesUnlessLosingStrategy">>

\* players.reverse() of app.py:169, as a value.
reverse(xs) == [i \in DOMAIN xs |-> xs[Len(xs) + 1 - i]]

\* app.py:172-173 without the condition len(winners) == 1: every co-winner counts.
RECURSIVE tally_all(_, _, _)
tally_all(sc, ws, game) ==
    IF ws = <<>> THEN sc
    ELSE tally_all([sc EXCEPT ![game[Head(ws)].strategy] = @ + 1], Tail(ws), game)

\* app.py:172-173: the generator yields the winners only when there is exactly
\* one, and the loop adds one to the count of each winner it yields.
tally(sc, ws, game) ==
    IF Len(ws) = 1 THEN [sc EXCEPT ![game[ws[1]].strategy] = @ + 1] ELSE sc

\* app.py:167-170: the players and the game of the next trial.
NewGame ==
    /\ pc = "trial"
    /\ attempt < MaxAttempts
    /\ players' = reverse([i \in DOMAIN strategies |-> Player(strategies[i])])
    /\ pc' = "play"
    /\ cur' = 1
    /\ winners' = <<>>
    /\ rolled' = [p \in DOMAIN strategies |-> 0]
    /\ rounds' = [p \in DOMAIN strategies |-> 0]
    /\ UNCHANGED <<dice, chosen, raised, nargs, scores, attempt>>

\* app.py:171-173 after play() has returned; the loop goes to its next pass and
\* the game of this trial is dropped.
Tally ==
    /\ pc = "done"
    /\ scores' = tally(scores, winners, players)
    /\ attempt' = attempt + 1
    /\ pc' = "trial"
    /\ players' = <<>>
    /\ cur' = 1
    /\ winners' = <<>>
    /\ rolled' = <<>>
    /\ rounds' = <<>>
    /\ UNCHANGED <<dice, chosen, raised, nargs>>

\* app.py:175-176: the loop is exhausted and the counts are reported.
Report ==
    /\ pc = "trial"
    /\ attempt = MaxAttempts
    /\ pc' = "reported"
    /\ UNCHANGED <<players, cur, dice, chosen, winners, raised, nargs, rolled, rounds,
                   scores, attempt>>

\* app.py:161-164
InitRun ==
    /\ scores = [name \in {strategies[i] : i \in DOMAIN strategies} |-> 0]
    /\ attempt = 0
    /\ pc = "trial"
    /\ players = <<>>
    /\ cur = 1
    /\ dice = <<>>
    /\ chosen = <<>>
    /\ winners = <<>>
    /\ raised = FALSE
    /\ nargs = 0
    /\ rolled = <<>>
    /\ rounds = <<>>

NextRun ==
    NewGame \/ DoRound \/ NextPlayer \/ BeginWinners \/ ReturnWinners \/ Tally \/ Report

SpecRun == InitRun /\ [][NextRun]_vars

(***************************************************************************)
(* Properties                                                              *)
(***************************************************************************)
\* Number of dice of ds showing face f.
count(ds, f) == Cardinality({i \in DOMAIN ds : ds[i] = f})

\* Number of dice player p has kept.
nkept(p) == Len(players[p].turn.kept_dice)

\* C1: in every state of a Turn, reached from the empty turn by keep calls, the
\* number of kept dice is between 0 and 5, and over is true exactly when it is 5.
C1_TurnWithinCapacity ==
    \A p \in DOMAIN players :
        /\ nkept(p) \in 0..5
        /\ over(players[p].turn) <=> nkept(p) = 5

\* A turn filled to capacity by successful keep calls.
C1_Witness ==
    /\ pc = "turn"
    /\ ~raised
    /\ nargs = 2
    /\ nkept(1) = 5
    /\ over(players[1].turn)

\* C2: a keep call whose number of dice n violates 1 <= n <= 5 - |kept before|
\* raises and leaves the kept dice as they were.
C2_KeepRejectsInvalid ==
    [][(pc = "turn" /\ ~(1 <= nargs' /\ nargs' <= 5 - nkept(1)))
          => (raised' /\ players' = players)]_vars

\* Two dice were passed with one slot left: the call raised.
C2_Witness ==
    /\ pc = "turn"
    /\ raised
    /\ nargs = 2
    /\ nkept(1) = 4

\* C3: the score of a player is the sum of its kept values in which a 3 counts
\* as 0 and every other die counts its face, in every state of its turn.
C3_ScoreSkipsThrees ==
    \A p \in DOMAIN players :
        LET ks == players[p].turn.kept_dice
        IN  score(players[p]) =
                1 * count(ks, 1) + 2 * count(ks, 2) + 0 * count(ks, 3)
                + 4 * count(ks, 4) + 5 * count(ks, 5) + 6 * count(ks, 6)

\* Kept 3, 3, 5, 2, 1: the score is 8.
C3_Witness ==
    /\ pc = "turn"
    /\ players[1].turn.kept_dice = <<3, 3, 5, 2, 1>>
    /\ score(players[1]) = 8

\* The players of the lowest score.
Lowest == {p \in DOMAIN players :
              \A q \in DOMAIN players : score(players[p]) <= score(players[q])}

\* C4: play() returns exactly the players of the minimum final score, every
\* tied player included, in the order of the player list, and at least one
\* player when the game has one.
C4_WinnersAreTheLowest ==
    pc = "done" =>
        /\ {winners[i] : i \in DOMAIN winners} = Lowest
        /\ Len(winners) = Cardinality(Lowest)
        /\ \A i, j \in DOMAIN winners : i < j => winners[i] < winners[j]
        /\ Len(players) >= 1 => winners # <<>>

\* Final scores 4, 4, 7: the first two players win.
C4_Witness ==
    /\ pc = "done"
    /\ Len(players) = 3
    /\ score(players[1]) = 4
    /\ score(players[2]) = 4
    /\ score(players[3]) = 7
    /\ winners = <<1, 2>>

\* C5 as stated: play() rolls exactly 5 dice for each player, 5 * N in total.
C5_ExactlyFiveRollsEach ==
    pc = "done" => \A p \in DOMAIN players : rolled[p] = 5

\* C5 amended: play() keeps exactly 5 dice for each player, and rolls for each
\* player at least 5 and at most 15 dice, 5 only when the turn took one round.
C5_FiveKeptFiveToFifteenRolled ==
    pc = "done" =>
        \A p \in DOMAIN players :
            /\ nkept(p) = 5
            /\ rolled[p] \in 5..15
            /\ rolled[p] = 5 <=> rounds[p] = 1

\* A finished game in which one player rolled 15 dice and the other 5.
C5_Witness ==
    /\ pc = "done"
    /\ rolled[1] = 15
    /\ rolled[2] = 5
    /\ nkept(1) = 5
    /\ nkept(2) = 5

\* C6: whatever the variant, the offered dice and the game, the returned
\* selection is not empty, has at most as many dice as were offered, and holds
\* no face more often than the offer does.
C6_SelectionWithinOffer ==
    pc = "returned" =>
        /\ Len(chosen) >= 1
        /\ Len(chosen) <= Len(dice)
        /\ \A f \in DieFaces : count(chosen, f) <= count(dice, f)
        /\ \A i \in DOMAIN chosen : chosen[i] \in DieFaces

\* KeepOnesAndTwosStrategy returned three of five offered dice.
C6_Witness ==
    /\ pc = "returned"
    /\ players[cur].strategy = "KeepOnesAndTwosStrategy"
    /\ dice = <<1, 5, 2, 3, 6>>
    /\ chosen = <<1, 2, 3>>

\* C7: players act one after another in list order: a player who has kept a die
\* comes after complete turns only; so at most one turn is partially filled,
\* those before it are complete and those after it are empty.
C7_OnePlayerAtATime ==
    LET partial == {p \in DOMAIN players : 0 < nkept(p) /\ nkept(p) < 5}
    IN  /\ Cardinality(partial) <= 1
        /\ \A p \in partial, q \in DOMAIN players :
              /\ q < p => nkept(q) = 5
              /\ q > p => nkept(q) = 0
        /\ \A p, q \in DOMAIN players : (p < q /\ nkept(q) > 0) => nkept(p) = 5

\* The second player is in the middle of its turn, the first has finished.
C7_Witness ==
    /\ pc = "play"
    /\ cur = 2
    /\ nkept(1) = 5
    /\ nkept(2) = 3

\* C8: when play() determines the winners, every turn is complete.
C8_WinnersAfterAllTurns ==
    pc \in {"winners", "done"} => \A p \in DOMAIN players : nkept(p) = 5

\* play() of two players stands at the winner determination.
C8_Witness ==
    /\ pc = "winners"
    /\ Len(players) = 2
    /\ cur = 3
    /\ \A p \in DOMAIN players : rounds[p] >= 1

\* Whether some player has finished and every finished player's score is
\* strictly above the acting player's.
AheadOfFinished ==
    LET finished == {p \in DOMAIN players : nkept(p) = 5}
    IN  /\ finished # {}
        /\ \A p \in finished : score(players[p]) > score(players[cur])

\* The lowest offered face.
LowestOffered == CHOOSE f \in DieFaces : count(dice, f) > 0 /\ \A i \in DOMAIN dice : f <= dice[i]

\* C9: KeepOnesUnlessLosingStrategy keeps every offered 3, and the offered 1s
\* exactly when some player has finished and the lowest finished score is
\* strictly above the acting player's score; if that selects nothing it keeps
\* one die of the lowest offered face.
C9_KeepOnesUnlessLosing ==
    (pc = "returned" /\ players[cur].strategy = "KeepOnesUnlessLosingStrategy") =>
        LET ones == IF AheadOfFinished THEN count(dice, 1) ELSE 0
        IN  IF count(dice, 3) + ones > 0
              THEN /\ count(chosen, 3) = count(dice, 3)
                   /\ count(chosen, 1) = ones
                   /\ Len(chosen) = count(dice, 3) + ones
              ELSE chosen = <<LowestOffered>>

\* Acting score 10, a finished opponent at 3, offered 4, 1, 5: one 1 is kept,
\* by the fallback.
C9_Witness ==
    /\ pc = "returned"
    /\ players[cur].strategy = "KeepOnesUnlessLosingStrategy"
    /\ score(players[cur]) = 10
    /\ Len(players) = 2
    /\ nkept(1) = 5
    /\ score(players[1]) = 3
    /\ dice = <<4, 1, 5>>
    /\ chosen = <<1>>

\* The lowest score among the finished players is at least the acting player's.
NotBehindFinished ==
    LET finished == {p \in DOMAIN players : nkept(p) = 5}
    IN  /\ finished # {}
        /\ \A p \in finished : score(players[p]) >= score(players[cur])

\* C10 as stated: the offered 1s are kept whenever some player has finished and
\* the acting player's score is lower than or equal to the lowest finished score.
C10_OnesKeptWhenNotLosing ==
    (/\ pc = "returned"
     /\ players[cur].strategy = "KeepOnesUnlessLosingStrategy"
     /\ NotBehindFinished) => count(chosen, 1) = count(dice, 1)

\* C10 amended: the offered 1s are kept whenever some player has finished and
\* the acting player's score is strictly lower than the lowest finished score;
\* on a tie an offered 1 is kept only as the fallback die, so not at all when a
\* 3 is offered.
C10_OnesKeptWhenStrictlyAhead ==
    (pc = "returned" /\ players[cur].strategy = "KeepOnesUnlessLosingStrategy") =>
        /\ AheadOfFinished => count(chosen, 1) = count(dice, 1)
        /\ (NotBehindFinished /\ ~AheadOfFinished /\ count(dice, 3) > 0)
              => count(chosen, 1) = 0

\* Acting score 10 tied with a finished opponent at 10, offered 3 and 1: only
\* the 3 is kept.
C10_Witness ==
    /\ pc = "returned"
    /\ players[cur].strategy = "KeepOnesUnlessLosingStrategy"
    /\ score(players[cur]) = 10
    /\ Len(players) = 2
    /\ nkept(1) = 5
    /\ score(players[1]) = 10
    /\ dice = <<3, 1>>
    /\ chosen = <<3>>

\* The faces a variant keeps whenever they are offered.
Targets(strategy) ==
    CASE strategy = "SimpleStrategy" -> {3}
      [] strategy = "KeepOnesStrategy" -> {3, 1}
      [] strategy = "KeepOnesAndTwosStrategy" -> {3, 1, 2}

\* C11: SimpleStrategy, KeepOnesStrategy and KeepOnesAndTwosStrategy return all
\* offered dice of a face in {3}, {3, 1} and {3, 1, 2} when there is one, and
\* otherwise one die of the lowest offered face.
C11_TargetsOrLowest ==
    (/\ pc = "returned"
     /\ players[cur].strategy \in
           {"SimpleStrategy", "KeepOnesStrategy", "KeepOnesAndTwosStrategy"}) =>
        LET T == Targets(players[cur].strategy)
            wanted == {i \in DOMAIN dice : dice[i] \in T}
        IN  IF wanted # {}
              THEN /\ Len(chosen) = Cardinality(wanted)
                   /\ \A f \in DieFaces :
                         count(chosen, f) = IF f \in T THEN count(dice, f) ELSE 0
              ELSE chosen = <<LowestOffered>>

\* KeepOnesAndTwosStrategy offered 2, 5, 1, 2, 3 keeps 2, 1, 2, 3.
C11_Witness ==
    /\ pc = "returned"
    /\ players[cur].strategy = "KeepOnesAndTwosStrategy"
    /\ dice = <<2, 5, 1, 2, 3>>
    /\ chosen = <<2, 1, 2, 3>>

\* Whether the list a is a prefix of the list b.
IsPrefix(a, b) == Len(a) <= Len(b) /\ SubSeq(b, 1, Len(a)) = a

\* C12: the kept dice of a Turn only grow at their end: over every step the old
\* list is a prefix of the new one, it changes only by a successful keep of the
\* dice passed, a complete turn stays complete and unchanged, and the score of
\* its player does not decrease.
C12_KeptOnlyGrows ==
    [][\A p \in DOMAIN players :
          /\ IsPrefix(players[p].turn.kept_dice, players'[p].turn.kept_dice)
          /\ over(players[p].turn) => players'[p].turn = players[p].turn
          /\ over(players[p].turn) => over(players'[p].turn)
          /\ score(players'[p]) >= score(players[p])
          /\ players'[p].turn # players[p].turn =>
                /\ ~raised'
                /\ Len(players'[p].turn.kept_dice) = nkept(p) + nargs']_vars

\* A keep call on a complete turn: it raised and the turn is still complete.
C12_Witness ==
    /\ pc = "turn"
    /\ over(players[1].turn)
    /\ raised
    /\ nargs = 1

\* The sum of the win counts.
RECURSIVE SumOver(_, _)
SumOver(f, names) ==
    IF names = {} THEN 0
    ELSE LET n == CHOOSE n \in names : TRUE IN f[n] + SumOver(f, names \ {n})

\* C13: a trial adds one to the count of the winner's strategy when play()
\* returned exactly one winner and changes no count otherwise; no other step
\* changes a count; so the counts sum to at most the number of trials run.
C13_OnlySingleWinnersCount ==
    /\ [](SumOver(scores, DOMAIN scores) <= attempt)
    /\ [][IF attempt' = attempt + 1
            THEN scores' = IF Len(winners) = 1
                             THEN [scores EXCEPT ![players[winners[1]].strategy] = @ + 1]
                             ELSE scores
            ELSE scores' = scores]_vars

\* Two trials were run, one tied and one won by SimpleStrategy.
C13_Witness ==
    /\ pc = "trial"
    /\ attempt = 2
    /\ scores["SimpleStrategy"] = 1
    /\ scores["KeepOnesUnlessLosingStrategy"] = 0

\* C14: in play() with any of the five variants the assertion of Turn.keep never
\* fails: every selection handed to keep has 1 to 5 - |kept| dice.
C14_SelectionsFit ==
    /\ pc # "failed"
    /\ ~raised
    /\ pc = "selected" =>
          /\ 1 <= Len(chosen)
          /\ Len(chosen) <= 5 - nkept(cur)

\* A selection of three dice for a turn that holds two: it fills the turn.
C14_Witness ==
    /\ pc = "selected"
    /\ nkept(cur) = 2
    /\ Len(chosen) = 3

\* C15: Turn.roll returns 5 - |kept| dice of faces 1..6 and leaves the kept dice
\* of every player as they are; the list a strategy is offered in play() has 1 to
\* 5 dice.
C15_RollFillsTheOpenSlots ==
    /\ [][pc' = "rolled" =>
            /\ Len(dice') = 5 - nkept(cur)
            /\ \A i \in DOMAIN dice' : dice'[i] \in 1..6
            /\ players' = players]_vars
    /\ [](pc \in {"rolled", "selected"} =>
            /\ Len(dice) = 5 - nkept(cur)
            /\ Len(dice) \in 1..5)

\* Three dice were rolled for a turn that holds two.
C15_Witness ==
    /\ pc = "rolled"
    /\ nkept(cur) = 2
    /\ Len(dice) = 3

\* C16: a strategy call changes no player, kept dice and scores included; the
\* players change only in the keep that follows, and there only the turn of the
\* acting player changes.
C16_StrategyCallsChangeNothing ==
    [][/\ pc = "rolled" =>
             /\ players' = players
             /\ \A p \in DOMAIN players : score(players'[p]) = score(players[p])
       /\ players' # players =>
             /\ pc = "selected"
             /\ DOMAIN players' = DOMAIN players
             /\ \A p \in DOMAIN players :
                   /\ players'[p].strategy = players[p].strategy
                   /\ p # cur => players'[p] = players[p]]_vars

\* The second player's strategy has returned its selection from the first roll
\* of the turn and nothing is kept yet.
C16_Witness ==
    /\ pc = "selected"
    /\ cur = 2
    /\ Len(chosen) >= 1
    /\ nkept(2) = 0
    /\ rounds[2] = 0

\* C17: play() terminates: it reaches its return; every round keeps at least one
\* die, so no turn takes more than 5 rounds, a complete turn took at least one,
\* and a game of N players takes at most 5 * N rounds.
C17_PlayTerminates ==
    /\ <>(pc = "done")
    /\ [](\A p \in DOMAIN players :
            /\ rounds[p] <= 5
            /\ rounds[p] <= nkept(p)
            /\ over(players[p].turn) => rounds[p] >= 1)
    /\ [][\A p \in DOMAIN players :
            rounds'[p] # rounds[p] => Len(players'[p].turn.kept_dice) > nkept(p)]_vars

\* A finished game whose first turn took five rounds and whose second took one.
C17_Witness ==
    /\ pc = "done"
    /\ rounds[1] = 5
    /\ rounds[2] = 1

\* C18: while the first player of the list acts in play() no turn is complete,
\* so KeepOnesUnlessLosingStrategy as first player keeps no 1 by its one-rule: it
\* returns what SimpleStrategy returns, the offered 3s or else one lowest die.
C18_FirstPlayerPlaysSimple ==
    (cur = 1 /\ pc \in {"rolled", "selected"}) =>
        /\ \A p \in DOMAIN players : ~over(players[p].turn)
        /\ (pc = "selected" /\ players[1].strategy = "KeepOnesUnlessLosingStrategy") =>
              /\ chosen \in SimpleStrategy(players, players[1], dice)
              /\ IF count(dice, 3) > 0
                   THEN chosen = [i \in 1..count(dice, 3) |-> 3]
                   ELSE chosen = <<LowestOffered>>

\* KeepOnesUnlessLosingStrategy as first player, offered 3, 1, 1, 3, 1, returns
\* the two 3s.
C18_Witness ==
    /\ pc = "selected"
    /\ cur = 1
    /\ players[1].strategy = "KeepOnesUnlessLosingStrategy"
    /\ dice = <<3, 1, 1, 3, 1>>
    /\ chosen = <<3, 3>>

\* C19: every round of a turn rolls 5 - |kept at its start| dice, so a complete
\* turn has rolled at least 5 and at most 15 dice; a RandomStrategy player keeps
\* one die a round and so takes 5 rounds and rolls 15 dice.
C19_RollsOfATurn ==
    /\ [][\A p \in DOMAIN players :
            rounds'[p] # rounds[p] =>
                /\ rounds'[p] = rounds[p] + 1
                /\ rolled'[p] = rolled[p] + (5 - nkept(p))]_vars
    /\ [](\A p \in DOMAIN players :
            /\ rounds[p] = 0 => rolled[p] = 0
            /\ over(players[p].turn) => (5 <= rolled[p] /\ rolled[p] <= 15)
            /\ players[p].strategy = "RandomStrategy" =>
                  /\ nkept(p) = rounds[p]
                  /\ over(players[p].turn) => (rounds[p] = 5 /\ rolled[p] = 15))

\* A finished game: the RandomStrategy player rolled 15 dice in 5 rounds, the
\* other player 5 + 4 + 1 = 10 dice in 3 rounds.
C19_Witness ==
    /\ pc = "done"
    /\ players[1].strategy = "RandomStrategy"
    /\ rounds[1] = 5
    /\ rolled[1] = 15
    /\ rounds[2] = 3
    /\ rolled[2] = 10

====
